---- MODULE Spec2Model ----
(***************************************************************************)
(* Model of compactlist.py: the Streamlit script that loads the student    *)
(* roster from SQLite, reconciles a free-text list of roll numbers against *)
(* it and renders the signature / attendance sheets with FPDF.             *)
(*                                                                         *)
(* One run of the script is a walk of pc from "start" to "done"; widget    *)
(* values are drawn where the script evaluates the widget, the outcome of  *)
(* a call into SQLite or FPDF is drawn where the call is made.             *)
(*                                                                         *)
(* Text is a sequence of one-character strings.  Lengths are kept in       *)
(* 1/30000 mm so that FPDF's string widths (glyph width * 12pt / 1000,     *)
(* converted to mm by 25.4/72) are integers: 127 units per glyph unit.     *)
(***************************************************************************)
EXTENDS Integers, Sequences, FiniteSets, TLC

VARIABLES
    table,            \* rows of the students table in students.db
    pc,               \* position of the script run
    app_mode,         \* sidebar selectbox value (line 151)
    conn,             \* the sqlite3 connection: "none", "open", "closed"
    queries,          \* number of read queries issued on the connection
    db_error,         \* "none", "connect", "query": what storage did this run
    df,               \* read_students' local query result
    student_data,     \* the roster the script works on (line 154)
    input_method,     \* radio value (line 204)
    roll_numbers_str, \* text area value (line 205)
    button,           \* "Generate Attendance PDF" pressed (line 207)
    input_rolls, total_rolls, out_of_range_rolls,
    present_rolls, absent_rolls,
    attendance_df,    \* student_data plus the status column (line 230)
    pdf_bytes,        \* what the create_*_pdf call returned
    download,         \* the download button offered, if any
    messages,         \* st.error / st.warning shown in this run
    calls,            \* what was invoked in this run (LayoutSpec: the last edit)
    typed             \* the integers the user wrote into the text (ParseSpec)

vars == << table, pc, app_mode, conn, queries, db_error, df, student_data,
           input_method, roll_numbers_str, button, input_rolls, total_rolls,
           out_of_range_rolls, present_rolls, absent_rolls, attendance_df,
           pdf_bytes, download, messages, calls, typed >>

-----------------------------------------------------------------------------
(* Bounds of the model *)

MaxRosterSize == 3
MaxTextLen == 4
MaxTyped == 5
MaxNum == 12
MaxLayoutRows == 2

(* Rolls a students table may hold, the characters of the text area *)
RosterRolls == {1, 2, 3}
TextChars == {"1", "2", "3", "5", " ", ","}

Digits == {"0", "1", "2", "3", "4", "5", "6", "7", "8", "9"}
Whitespace == {" ", "\n", "\t"}
Separators == {",", " ", "\n", "\t"}

Range(s) == {s[i] : i \in DOMAIN s}

SeqsUpTo(S, n) == UNION {[1..k -> S] : k \in 0..n}

-----------------------------------------------------------------------------
(* Text helpers: str.strip(), re.findall(r'\d+', s), int(), sorted() *)

DigitVal(c) ==
    CASE c = "0" -> 0 [] c = "1" -> 1 [] c = "2" -> 2 [] c = "3" -> 3
      [] c = "4" -> 4 [] c = "5" -> 5 [] c = "6" -> 6 [] c = "7" -> 7
      [] c = "8" -> 8 [] c = "9" -> 9

DigitChar(d) ==
    CASE d = 0 -> "0" [] d = 1 -> "1" [] d = 2 -> "2" [] d = 3 -> "3"
      [] d = 4 -> "4" [] d = 5 -> "5" [] d = 6 -> "6" [] d = 7 -> "7"
      [] d = 8 -> "8" [] d = 9 -> "9"

RECURSIVE LStrip(_)
LStrip(s) ==
    IF s # << >> /\ Head(s) \in Whitespace THEN LStrip(Tail(s)) ELSE s

RECURSIVE RStrip(_)
RStrip(s) ==
    IF s # << >> /\ s[Len(s)] \in Whitespace
    THEN RStrip(SubSeq(s, 1, Len(s) - 1)) ELSE s

(* roll_numbers_str.strip() *)
Strip(s) == RStrip(LStrip(s))

(* int(num) of a run of decimal digits *)
RECURSIVE int(_)
int(run) ==
    IF run = << >> THEN 0
    ELSE 10 * int(SubSeq(run, 1, Len(run) - 1)) + DigitVal(run[Len(run)])

(* The run of digits that starts at position i of s and goes on as long as *)
(* the next character is a digit (the greedy match of \d+ at i).           *)
RECURSIVE DigitRun(_, _)
DigitRun(s, i) ==
    IF i <= Len(s) /\ s[i] \in Digits
    THEN << s[i] >> \o DigitRun(s, i + 1) ELSE << >>

(* The match of the pattern \d at i: one digit only *)
OneDigit(s, i) == IF i <= Len(s) /\ s[i] \in Digits THEN << s[i] >> ELSE << >>

(* The match of the pattern \d+ at i *)
Match(s, i) == DigitRun(s, i)

(* re.findall(r'\d+', s): scan left to right, take the match at the first  *)
(* position that has one, go on after it.                                  *)
RECURSIVE FindAllFrom(_, _)
FindAllFrom(s, i) ==
    IF i > Len(s) THEN << >>
    ELSE LET m == Match(s, i) IN
         IF m = << >> THEN FindAllFrom(s, i + 1)
         ELSE << m >> \o FindAllFrom(s, i + Len(m))

findall(s) == FindAllFrom(s, 1)

(* {int(num) for num in re.findall(r'\d+', roll_numbers_str)} *)
ExtractRolls(s) == {int(num) : num \in Range(findall(s))}

Min(S) == CHOOSE x \in S : \A y \in S : x <= y

(* sorted(list(S)) *)
RECURSIVE sorted(_)
sorted(S) ==
    IF S = {} THEN << >> ELSE << Min(S) >> \o sorted(S \ {Min(S)})

-----------------------------------------------------------------------------
(* The students table *)

NameOf(r) ==
    CASE r = 1 -> << "i" >>
      [] r = 2 -> << "W", "W", "W" >>
      [] OTHER -> << "W", "i" >>

GroupOf(r) == IF r = 2 THEN "G2" ELSE "G1"

Row(r) == [roll_no |-> r, name |-> NameOf(r), group_name |-> GroupOf(r)]

(* roll_no is unique across the roster *)
Tables ==
    {t \in SeqsUpTo({Row(r) : r \in RosterRolls}, MaxRosterSize) :
        \A i, j \in DOMAIN t : i # j => t[i].roll_no # t[j].roll_no}

(* A test that takes every DataFrame, rows or not, as data *)
NeverEmpty(d) == FALSE

(* DataFrame.empty *)
empty(d) == d = << >>

-----------------------------------------------------------------------------
(* Layout: FPDF.get_string_width under Helvetica 12pt, in 1/30000 mm *)

Mm(x) == x * 30000

(* Glyph widths of the core fonts Helvetica ("") and Helvetica-Bold ("B") *)
cw(style, c) ==
    CASE c = "i" -> IF style = "B" THEN 278 ELSE 222
      [] c = "W" -> 944
      [] c = "N" -> 722
      [] c = "a" -> 556
      [] c = "m" -> IF style = "B" THEN 889 ELSE 833
      [] c = "e" -> 556

RECURSIVE get_string_width(_, _)
get_string_width(style, s) ==
    IF s = << >> THEN 0
    ELSE 127 * cw(style, Head(s)) + get_string_width(style, Tail(s))

(* Python's max() of a non-empty collection (lines 42, 91) *)
max(S) == CHOOSE x \in S : \A y \in S : y <= x

(* The smaller of the two in place of the larger *)
min2(a, b) == IF a <= b THEN a ELSE b

(* Python's max() of two numbers (lines 43, 92) *)
max2(a, b) == IF a >= b THEN a ELSE b

(* lines 39-43 and 86-92: the content-driven width of the name column *)
NameColWidth(d) ==
    LET name_header_width == get_string_width("B", << "N", "a", "m", "e" >>) + Mm(6)
        max_name_width ==
            max({get_string_width("", d[i].name) : i \in DOMAIN d}) + Mm(6)
    IN  max2(name_header_width, max_name_width)

create_signature_pdf(d) ==
    LET name_col_width == NameColWidth(d)
        col_widths == [roll_no |-> Mm(20), name |-> name_col_width,
                       group_name |-> Mm(15), signature |-> Mm(50)]
    IN  [kind |-> "signature",
         col_widths |-> col_widths,
         rows |-> [i \in DOMAIN d |-> [roll_no |-> d[i].roll_no]]]

(* nunique() in place of the count: the distinct values equal to v *)
value_nunique(d, v) == Cardinality({d[i].status : i \in {j \in DOMAIN d : d[j].status = v}})

(* df['status'].value_counts().get(v, 0) *)
value_count(d, v) == Cardinality({i \in DOMAIN d : d[i].status = v})

create_attendance_pdf(d) ==
    LET w == Mm(210)   \* FPDF() default page: A4, 210 mm wide
        available_width == w - Mm(20)
        name_col_width == NameColWidth(d)
        col_widths0 == [roll_no |-> Mm(15), name |-> name_col_width,
                        group_name |-> Mm(15), status |-> Mm(20),
                        signature |-> Mm(40)]
        fixed_cols_width == col_widths0.roll_no + col_widths0.group_name
                              + col_widths0.status + col_widths0.signature
        col_widths == [col_widths0 EXCEPT !.name = available_width - fixed_cols_width]
    IN  [kind |-> "attendance",
         col_widths |-> col_widths,
         rows |-> [i \in DOMAIN d |->
                      [roll_no |-> d[i].roll_no, status |-> d[i].status,
                       fill |-> d[i].status = "Absent"]],
         present_count |-> value_count(d, "Present"),
         absent_count |-> value_count(d, "Absent")]

-----------------------------------------------------------------------------
(* Reconciliation, lines 212-230 *)

(* The difference taken the other way round *)
SwappedOutOfRange(input, total) == total \ input

(* line 215 *)
OutOfRange(input, total) == input \ total

(* Both modes treated as 'Enter Absentees' *)
PresentIgnoresMode(method, input, total) == total \ (input \cap total)

(* lines 219-224: present_rolls *)
PresentOf(method, input, total) ==
    IF method = "Enter Absentees"
    THEN total \ (input \cap total)
    ELSE input \cap total

(* The entered absentees taken as they are, unknown rolls included *)
AbsentNoIntersect(method, input, total) ==
    IF method = "Enter Absentees"
    THEN input
    ELSE total \ (input \cap total)

(* lines 219-224: absent_rolls *)
AbsentOf(method, input, total) ==
    IF method = "Enter Absentees"
    THEN input \cap total
    ELSE total \ (input \cap total)

get_status(roll, present) == IF roll \in present THEN "Present" ELSE "Absent"

(* attendance_df = student_data.copy(); attendance_df['status'] = ... *)
WithStatus(d, present) ==
    [i \in DOMAIN d |->
        [roll_no |-> d[i].roll_no, name |-> d[i].name,
         group_name |-> d[i].group_name,
         status |-> get_status(d[i].roll_no, present)]]

-----------------------------------------------------------------------------
(* Values of "nothing yet" and what the UI shows *)

NoDoc == [kind |-> "none"]
NoDownload == [label |-> "none"]

Msg(kind, text, detail) == [kind |-> kind, text |-> text, detail |-> detail]

ConnectError == Msg("error", "Error connecting to database", << >>)
ReadError ==
    Msg("error", "An error occurred while reading from the database", << >>)
NoData == Msg("warning", "No student data found.", << >>)
EnterSome == Msg("warning", "Please enter some roll numbers.", << >>)
Ignored(rolls) ==
    Msg("warning",
        "The following roll numbers were ignored as they are not in the class list",
        rolls)
PdfError == Msg("error", "An error occurred while generating the PDF", << >>)

AppModes == {"Attendance Maker", "Compact List"}

(* What a try block (lines 169-176, 232-240) can do: both calls return,   *)
(* the create_*_pdf call raises, or st.download_button raises.            *)
TryOutcomes == {"returns", "render_raises", "button_raises"}
InputMethods == {"Enter Absentees", "Enter Present"}

-----------------------------------------------------------------------------
(* The script *)

RunStart ==
    /\ pc = "start"
    /\ app_mode = "Attendance Maker"
    /\ conn = "none" /\ queries = 0 /\ db_error = "none"
    /\ df = << >> /\ student_data = << >>
    /\ input_method = "Enter Absentees"
    /\ roll_numbers_str = << >>
    /\ button = FALSE
    /\ input_rolls = {} /\ total_rolls = {} /\ out_of_range_rolls = {}
    /\ present_rolls = {} /\ absent_rolls = {}
    /\ attendance_df = << >>
    /\ pdf_bytes = NoDoc /\ download = NoDownload
    /\ messages = {} /\ calls = {}

Init ==
    /\ table \in Tables
    /\ typed = << >>
    /\ RunStart

(* line 151: the sidebar selectbox *)
Sidebar ==
    /\ pc = "start"
    /\ \E m \in AppModes : app_mode' = m
    /\ pc' = "get_db_connection"
    /\ UNCHANGED << table, conn, queries, db_error, df, student_data,
                    input_method, roll_numbers_str, button, input_rolls,
                    total_rolls, out_of_range_rolls, present_rolls,
                    absent_rolls, attendance_df, pdf_bytes, download,
                    messages, calls, typed >>

(* lines 8-15, called from line 19 *)
get_db_connection ==
    /\ pc = "get_db_connection"
    /\ \E ok \in BOOLEAN :
         IF ok
         THEN /\ conn' = "open"
              /\ UNCHANGED << messages, db_error >>
         ELSE /\ conn' = "none"
              /\ messages' = messages \cup {ConnectError}
              /\ db_error' = "connect"
    /\ pc' = "if_conn"
    /\ UNCHANGED << table, app_mode, queries, df, student_data, input_method,
                    roll_numbers_str, button, input_rolls, total_rolls,
                    out_of_range_rolls, present_rolls, absent_rolls,
                    attendance_df, pdf_bytes, download, calls, typed >>

(* lines 20 and 30: no connection, the empty DataFrame is returned *)
ReturnNoConn ==
    /\ pc = "if_conn"
    /\ conn = "none"
    /\ student_data' = << >>
    /\ pc' = "dispatch"
    /\ UNCHANGED << table, app_mode, conn, queries, db_error, df,
                    input_method, roll_numbers_str, button, input_rolls,
                    total_rolls, out_of_range_rolls, present_rolls,
                    absent_rolls, attendance_df, pdf_bytes, download,
                    messages, calls, typed >>

(* lines 21-24: the query, which returns the rows or raises *)
read_sql_query ==
    /\ pc = "if_conn"
    /\ conn = "open"
    /\ queries' = queries + 1
    /\ \E ok \in BOOLEAN :
         IF ok
         THEN /\ df' = table
              /\ pc' = "close"
              /\ UNCHANGED db_error
         ELSE /\ df' = << >>
              /\ pc' = "except"
              /\ db_error' = "query"
    /\ UNCHANGED << table, app_mode, conn, student_data, input_method,
                    roll_numbers_str, button, input_rolls, total_rolls,
                    out_of_range_rolls, present_rolls, absent_rolls,
                    attendance_df, pdf_bytes, download, messages, calls,
                    typed >>

(* lines 25-26: conn.close(); return df *)
CloseAndReturn ==
    /\ pc = "close"
    /\ conn' = "closed"
    /\ student_data' = df
    /\ pc' = "dispatch"
    /\ UNCHANGED << table, app_mode, queries, db_error, df, input_method,
                    roll_numbers_str, button, input_rolls, total_rolls,
                    out_of_range_rolls, present_rolls, absent_rolls,
                    attendance_df, pdf_bytes, download, messages, calls,
                    typed >>

(* The handler without its conn.close() *)
ExceptNoClose ==
    /\ pc = "except"
    /\ messages' = messages \cup {ReadError}
    /\ student_data' = << >>
    /\ pc' = "dispatch"
    /\ UNCHANGED << table, app_mode, conn, queries, db_error, df, input_method,
                    roll_numbers_str, button, input_rolls, total_rolls,
                    out_of_range_rolls, present_rolls, absent_rolls,
                    attendance_df, pdf_bytes, download, calls, typed >>

(* lines 27-30: st.error, conn.close(), return the empty DataFrame *)
ExceptAndReturn ==
    /\ pc = "except"
    /\ messages' = messages \cup {ReadError}
    /\ conn' = "closed"
    /\ student_data' = << >>
    /\ pc' = "dispatch"
    /\ UNCHANGED << table, app_mode, queries, db_error, df, input_method,
                    roll_numbers_str, button, input_rolls, total_rolls,
                    out_of_range_rolls, present_rolls, absent_rolls,
                    attendance_df, pdf_bytes, download, calls, typed >>

(* lines 157-168, 177-178: the Compact List view up to the render call *)
CompactList ==
    /\ pc = "dispatch"
    /\ app_mode = "Compact List"
    /\ IF ~empty(student_data)
       THEN /\ pc' = "signature_try"
            /\ UNCHANGED messages
       ELSE /\ messages' = messages \cup {NoData}
            /\ pc' = "done"
    /\ UNCHANGED << table, app_mode, conn, queries, db_error, df,
                    student_data, input_method, roll_numbers_str, button,
                    input_rolls, total_rolls, out_of_range_rolls,
                    present_rolls, absent_rolls, attendance_df, pdf_bytes,
                    download, calls, typed >>

(* lines 169-176: the try block of the Compact List view *)
SignatureTry ==
    /\ pc = "signature_try"
    /\ calls' = calls \cup {"create_signature_pdf"}
    /\ \E outcome \in TryOutcomes :
         CASE outcome = "returns" ->
                /\ pdf_bytes' = create_signature_pdf(student_data)
                /\ download' = [label |-> "Download as PDF for Signatures",
                                data |-> pdf_bytes']
                /\ UNCHANGED messages
           [] outcome = "render_raises" ->
                /\ messages' = messages \cup {PdfError}
                /\ UNCHANGED << pdf_bytes, download >>
           [] outcome = "button_raises" ->
                /\ pdf_bytes' = create_signature_pdf(student_data)
                /\ messages' = messages \cup {PdfError}
                /\ UNCHANGED download
    /\ pc' = "done"
    /\ UNCHANGED << table, app_mode, conn, queries, db_error, df,
                    student_data, input_method, roll_numbers_str, button,
                    input_rolls, total_rolls, out_of_range_rolls,
                    present_rolls, absent_rolls, attendance_df, typed >>

(* lines 180-207, 243-244: the Attendance Maker view up to the button *)
AttendanceMaker ==
    /\ pc = "dispatch"
    /\ app_mode = "Attendance Maker"
    /\ IF ~empty(student_data)
       THEN /\ \E m \in InputMethods : input_method' = m
            /\ \E t \in SeqsUpTo(TextChars, MaxTextLen) : roll_numbers_str' = t
            /\ \E b \in BOOLEAN :
                 /\ button' = b
                 /\ pc' = IF b THEN "generate" ELSE "done"
            /\ UNCHANGED messages
       ELSE /\ messages' = messages \cup {NoData}
            /\ pc' = "done"
            /\ UNCHANGED << input_method, roll_numbers_str, button >>
    /\ UNCHANGED << table, app_mode, conn, queries, db_error, df,
                    student_data, input_rolls, total_rolls,
                    out_of_range_rolls, present_rolls, absent_rolls,
                    attendance_df, pdf_bytes, download, calls, typed >>

(* line 208: the test that lets the generate branch run *)
HasInput(s) == Strip(s) # << >>

(* lines 208-230, 241-242: parse, reconcile, build attendance_df *)
Generate ==
    /\ pc = "generate"
    /\ IF HasInput(roll_numbers_str)
       THEN /\ input_rolls' = ExtractRolls(roll_numbers_str)
            /\ total_rolls' = {student_data[i].roll_no : i \in DOMAIN student_data}
            /\ out_of_range_rolls' = OutOfRange(input_rolls', total_rolls')
            /\ messages' = IF out_of_range_rolls' # {}
                           THEN messages \cup {Ignored(sorted(out_of_range_rolls'))}
                           ELSE messages
            /\ present_rolls' = PresentOf(input_method, input_rolls', total_rolls')
            /\ absent_rolls' = AbsentOf(input_method, input_rolls', total_rolls')
            /\ attendance_df' = WithStatus(student_data, present_rolls')
            /\ calls' = calls \cup {"reconcile"}
            /\ pc' = "attendance_try"
       ELSE /\ messages' = messages \cup {EnterSome}
            /\ pc' = "done"
            /\ UNCHANGED << input_rolls, total_rolls, out_of_range_rolls,
                            present_rolls, absent_rolls, attendance_df, calls >>
    /\ UNCHANGED << table, app_mode, conn, queries, db_error, df,
                    student_data, input_method, roll_numbers_str, button,
                    pdf_bytes, download, typed >>

(* The download button offered from the handler as well *)
AttendanceTryButtonAlways ==
    /\ pc = "attendance_try"
    /\ calls' = calls \cup {"create_attendance_pdf"}
    /\ \E outcome \in TryOutcomes :
         CASE outcome = "returns" ->
                /\ pdf_bytes' = create_attendance_pdf(attendance_df)
                /\ download' = [label |-> "Download Attendance Sheet",
                                data |-> pdf_bytes']
                /\ UNCHANGED messages
           [] outcome = "render_raises" ->
                /\ messages' = messages \cup {PdfError}
                /\ download' = [label |-> "Download Attendance Sheet",
                                data |-> pdf_bytes]
                /\ UNCHANGED pdf_bytes
           [] outcome = "button_raises" ->
                /\ pdf_bytes' = create_attendance_pdf(attendance_df)
                /\ messages' = messages \cup {PdfError}
                /\ UNCHANGED download
    /\ pc' = "done"
    /\ UNCHANGED << table, app_mode, conn, queries, db_error, df,
                    student_data, input_method, roll_numbers_str, button,
                    input_rolls, total_rolls, out_of_range_rolls,
                    present_rolls, absent_rolls, attendance_df, typed >>

(* lines 232-240: the try block of the Attendance Maker view *)
AttendanceTry ==
    /\ pc = "attendance_try"
    /\ calls' = calls \cup {"create_attendance_pdf"}
    /\ \E outcome \in TryOutcomes :
         CASE outcome = "returns" ->
                /\ pdf_bytes' = create_attendance_pdf(attendance_df)
                /\ download' = [label |-> "Download Attendance Sheet",
                                data |-> pdf_bytes']
                /\ UNCHANGED messages
           [] outcome = "render_raises" ->
                /\ messages' = messages \cup {PdfError}
                /\ UNCHANGED << pdf_bytes, download >>
           [] outcome = "button_raises" ->
                /\ pdf_bytes' = create_attendance_pdf(attendance_df)
                /\ messages' = messages \cup {PdfError}
                /\ UNCHANGED download
    /\ pc' = "done"
    /\ UNCHANGED << table, app_mode, conn, queries, db_error, df,
                    student_data, input_method, roll_numbers_str, button,
                    input_rolls, total_rolls, out_of_range_rolls,
                    present_rolls, absent_rolls, attendance_df, typed >>

(* Any interaction reruns the script from the top on the same table *)
Rerun ==
    /\ pc = "done"
    /\ pc' = "start"
    /\ app_mode' = "Attendance Maker"
    /\ conn' = "none" /\ queries' = 0 /\ db_error' = "none"
    /\ df' = << >> /\ student_data' = << >>
    /\ input_method' = "Enter Absentees"
    /\ roll_numbers_str' = << >>
    /\ button' = FALSE
    /\ input_rolls' = {} /\ total_rolls' = {} /\ out_of_range_rolls' = {}
    /\ present_rolls' = {} /\ absent_rolls' = {}
    /\ attendance_df' = << >>
    /\ pdf_bytes' = NoDoc /\ download' = NoDownload
    /\ messages' = {} /\ calls' = {}
    /\ UNCHANGED << table, typed >>

Next ==
    \/ Sidebar
    \/ get_db_connection
    \/ ReturnNoConn
    \/ read_sql_query
    \/ CloseAndReturn
    \/ ExceptAndReturn
    \/ CompactList
    \/ SignatureTry
    \/ AttendanceMaker
    \/ Generate
    \/ AttendanceTry
    \/ Rerun

Spec == Init /\ [][Next]_vars

-----------------------------------------------------------------------------
(* Properties of the script run *)

Rolls(d) == {d[i].roll_no : i \in DOMAIN d}

PostRead == pc \in {"dispatch", "signature_try", "generate", "attendance_try", "done"}

Reconciled == "reconcile" \in calls

OtherMethod(m) == IF m = "Enter Absentees" THEN "Enter Present" ELSE "Enter Absentees"

IgnoredWarnings == {m \in messages : m.kind = "warning" /\ m.detail # << >>}

Ascending(q) == \A i, j \in DOMAIN q : i < j => q[i] < q[j]

(* C1: after the generate action has reconciled, present_rolls and  *)
(* absent_rolls partition the roster's roll numbers (union is the roster,  *)
(* intersection is empty) and every roster row carries exactly one status, *)
(* Present if its roll is in present_rolls and Absent otherwise, which is  *)
(* the same as its roll being in absent_rolls.                             *)
C1_CompleteDisjoint ==
    Reconciled =>
        /\ present_rolls \cup absent_rolls = Rolls(student_data)
        /\ present_rolls \cap absent_rolls = {}
        /\ DOMAIN attendance_df = DOMAIN student_data
        /\ \A i \in DOMAIN student_data :
             /\ attendance_df[i].roll_no = student_data[i].roll_no
             /\ attendance_df[i].status \in {"Present", "Absent"}
             /\ attendance_df[i].status = "Present"
                  <=> student_data[i].roll_no \in present_rolls
             /\ attendance_df[i].status = "Absent"
                  <=> student_data[i].roll_no \in absent_rolls

C1_Witness ==
    /\ Reconciled
    /\ present_rolls # {} /\ absent_rolls # {} /\ out_of_range_rolls # {}
    /\ input_method = "Enter Absentees"

(* C2: mode symmetry.  With parsed input set S, 'Enter Absentees' marks    *)
(* exactly the roster members in S Absent and the others Present, 'Enter   *)
(* Present' marks exactly the roster members in S Present and the others   *)
(* Absent, and the other mode applied to the same input gives every roster *)
(* member the opposite status.                                             *)
C2_ModeSymmetry ==
    Reconciled =>
        /\ input_method = "Enter Absentees" =>
             \A i \in DOMAIN student_data :
                attendance_df[i].status =
                    IF student_data[i].roll_no \in input_rolls
                    THEN "Absent" ELSE "Present"
        /\ input_method = "Enter Present" =>
             \A i \in DOMAIN student_data :
                attendance_df[i].status =
                    IF student_data[i].roll_no \in input_rolls
                    THEN "Present" ELSE "Absent"
        /\ LET other == WithStatus(student_data,
                            PresentOf(OtherMethod(input_method), input_rolls,
                                      total_rolls))
           IN  \A i \in DOMAIN student_data :
                  other[i].status # attendance_df[i].status

(* roster 1, 2, 3; input "1, 3"; 'Enter Absentees': Absent, Present, Absent *)
C2_Witness ==
    /\ Reconciled
    /\ input_method = "Enter Absentees"
    /\ roll_numbers_str = << "1", ",", " ", "3" >>
    /\ Len(attendance_df) = 3
    /\ \A i \in 1..3 : attendance_df[i].roll_no = i
    /\ attendance_df[1].status = "Absent"
    /\ attendance_df[2].status = "Present"
    /\ attendance_df[3].status = "Absent"
    /\ out_of_range_rolls = {}

(* C3: the unknown rolls are exactly the parsed rolls that are not in the  *)
(* roster; when there are any, one warning lists exactly them in ascending *)
(* order (and there is no such warning otherwise); the warning does not    *)
(* stop the run, which goes on to the render call; and the marks are those *)
(* the same input without the unknown rolls would give.                    *)
C3_UnknownRolls ==
    Reconciled =>
        /\ out_of_range_rolls = input_rolls \ Rolls(student_data)
        /\ \A r \in input_rolls :
              r \notin Rolls(student_data) =>
                 \E m \in IgnoredWarnings : r \in Range(m.detail)
        /\ \A m \in IgnoredWarnings :
              /\ Range(m.detail) = input_rolls \ Rolls(student_data)
              /\ Ascending(m.detail)
        /\ Cardinality(IgnoredWarnings) <= 1
        /\ pc = "attendance_try" \/ "create_attendance_pdf" \in calls
        /\ attendance_df =
              WithStatus(student_data,
                         PresentOf(input_method,
                                   input_rolls \ out_of_range_rolls,
                                   total_rolls))

(* two unknown rolls entered in descending order *)
C3_Witness ==
    /\ Reconciled
    /\ Cardinality(out_of_range_rolls) = 2
    /\ LET found == findall(roll_numbers_str)
       IN  Len(found) = 2 /\ int(found[1]) > int(found[2])
    /\ Len(student_data) = 2
    /\ input_method = "Enter Present"
    /\ pc = "done"
    /\ download # NoDownload

(* C4: when the button is pressed on a text that yields no parseable roll  *)
(* number (empty, whitespace only, or without any digit), the run ends     *)
(* with the prompt to enter roll numbers, without reconciliation, marks or *)
(* a document.                                                             *)
C4_NoRollsRejected ==
    (pc = "done" /\ button /\ ExtractRolls(roll_numbers_str) = {}) =>
        /\ EnterSome \in messages
        /\ ~Reconciled
        /\ attendance_df = << >>
        /\ pdf_bytes = NoDoc
        /\ download = NoDownload

(* C6: the summary of every generated attendance sheet has                 *)
(* present_count + absent_count = number of roster rows, present_count the *)
(* number of rows with status Present, and absent_count the roster size    *)
(* minus present_count.                                                    *)
C6_SummaryCounts ==
    pdf_bytes.kind = "attendance" =>
        /\ pdf_bytes.present_count + pdf_bytes.absent_count = Len(student_data)
        /\ pdf_bytes.present_count =
              Cardinality({i \in DOMAIN attendance_df :
                              attendance_df[i].status = "Present"})
        /\ pdf_bytes.absent_count = Len(student_data) - pdf_bytes.present_count

C6_Witness ==
    /\ pdf_bytes.kind = "attendance"
    /\ pdf_bytes.present_count = 1
    /\ pdf_bytes.absent_count = 2

(* C7: a failing connection or query makes read_students return the empty  *)
(* roster and show an error; and with an empty roster neither view goes    *)
(* past its emptiness test: no reconciliation, no create_*_pdf call (so no *)
(* width computation over zero rows), no document, and the run ends with   *)
(* the 'No student data found.' warning.                                   *)
C7_EmptyRosterDegrades ==
    /\ (PostRead /\ db_error = "connect") =>
          student_data = << >> /\ ConnectError \in messages
    /\ (PostRead /\ db_error = "query") =>
          student_data = << >> /\ ReadError \in messages
    /\ (PostRead /\ student_data = << >>) =>
          /\ pc \in {"dispatch", "done"}
          /\ calls = {}
          /\ pdf_bytes = NoDoc /\ download = NoDownload
          /\ attendance_df = << >>
          /\ pc = "done" => NoData \in messages

C7_Witness ==
    /\ pc = "done"
    /\ db_error = "query"
    /\ table # << >>
    /\ NoData \in messages

(* C8: the connection is open only inside read_students, carries at most   *)
(* one read query, and once read_students has returned it is never open:   *)
(* if it was acquired it has served exactly one query and is closed.       *)
C8_ConnectionReleased ==
    /\ queries <= 1
    /\ conn = "open" => pc \in {"if_conn", "close", "except"}
    /\ PostRead => conn # "open"
    /\ (PostRead /\ db_error # "connect") => conn = "closed" /\ queries = 1
    /\ (PostRead /\ db_error = "connect") => conn = "none" /\ queries = 0

C8_Witness ==
    /\ pc = "dispatch"
    /\ db_error = "query"
    /\ conn = "closed"
    /\ queries = 1

(* C9: a failure inside create_signature_pdf or create_attendance_pdf ends *)
(* the run with the PDF error message and without a download button; a     *)
(* download button exists only after the render call returned, and its     *)
(* data are exactly the bytes that call returned for the rendered frame.   *)
C9_RenderBoundary ==
    /\ PdfError \in messages => download = NoDownload /\ pc = "done"
    /\ (pc = "done" /\ calls \cap {"create_signature_pdf", "create_attendance_pdf"} # {}
          /\ pdf_bytes = NoDoc) =>
          PdfError \in messages /\ download = NoDownload
    /\ download # NoDownload =>
          /\ pc = "done"
          /\ PdfError \notin messages
          /\ pdf_bytes # NoDoc
          /\ download.data = pdf_bytes
          /\ app_mode = "Compact List" =>
                /\ "create_signature_pdf" \in calls
                /\ pdf_bytes = create_signature_pdf(student_data)
          /\ app_mode = "Attendance Maker" =>
                /\ "create_attendance_pdf" \in calls
                /\ pdf_bytes = create_attendance_pdf(attendance_df)

C9_Witness ==
    /\ PdfError \in messages
    /\ pdf_bytes = NoDoc
    /\ app_mode = "Attendance Maker"
    /\ "create_attendance_pdf" \in calls

-----------------------------------------------------------------------------
(* Roll-number extraction on its own: a user writes integers into the text *)
(* area, separated by commas, blanks, tabs and newlines, and the generate  *)
(* branch parses the text (lines 205, 209-210).                            *)

(* The decimal digits of n, as a user writes them *)
RECURSIVE str(_)
str(n) ==
    IF n < 10 THEN << DigitChar(n) >>
    ELSE str(n \div 10) \o << DigitChar(n % 10) >>

RECURSIVE Join(_, _)
Join(nums, sep) ==
    IF nums = << >> THEN << >>
    ELSE IF Len(nums) = 1 THEN str(nums[1])
    ELSE str(Head(nums)) \o << sep >> \o Join(Tail(nums), sep)

InitParse ==
    /\ table = << >>
    /\ typed = << >>
    /\ pc = "typing"
    /\ app_mode = "Attendance Maker"
    /\ conn = "none" /\ queries = 0 /\ db_error = "none"
    /\ df = << >> /\ student_data = << >>
    /\ input_method = "Enter Absentees"
    /\ roll_numbers_str = << >>
    /\ button = FALSE
    /\ input_rolls = {} /\ total_rolls = {} /\ out_of_range_rolls = {}
    /\ present_rolls = {} /\ absent_rolls = {}
    /\ attendance_df = << >>
    /\ pdf_bytes = NoDoc /\ download = NoDownload
    /\ messages = {} /\ calls = {}

(* The user writes one more integer, possibly with a leading zero *)
TypeNumber ==
    /\ pc = "typing"
    /\ IF roll_numbers_str = << >> THEN TRUE
       ELSE roll_numbers_str[Len(roll_numbers_str)] \in Separators
    /\ \E n \in 1..MaxNum, zero \in BOOLEAN :
         LET digits == (IF zero THEN << "0" >> ELSE << >>) \o str(n) IN
         /\ Len(roll_numbers_str) + Len(digits) <= MaxTyped
         /\ roll_numbers_str' = roll_numbers_str \o digits
         /\ typed' = Append(typed, n)
    /\ UNCHANGED << table, pc, app_mode, conn, queries, db_error, df,
                    student_data, input_method, button, input_rolls,
                    total_rolls, out_of_range_rolls, present_rolls,
                    absent_rolls, attendance_df, pdf_bytes, download,
                    messages, calls >>

(* The user writes one separator character *)
TypeSeparator ==
    /\ pc = "typing"
    /\ Len(roll_numbers_str) < MaxTyped
    /\ \E c \in Separators : roll_numbers_str' = Append(roll_numbers_str, c)
    /\ UNCHANGED << table, pc, app_mode, conn, queries, db_error, df,
                    student_data, input_method, button, input_rolls,
                    total_rolls, out_of_range_rolls, present_rolls,
                    absent_rolls, attendance_df, pdf_bytes, download,
                    messages, calls, typed >>

(* lines 209-210 *)
Parse ==
    /\ pc = "typing"
    /\ input_rolls' = ExtractRolls(roll_numbers_str)
    /\ pc' = "parsed"
    /\ UNCHANGED << table, app_mode, conn, queries, db_error, df,
                    student_data, input_method, roll_numbers_str, button,
                    total_rolls, out_of_range_rolls, present_rolls,
                    absent_rolls, attendance_df, pdf_bytes, download,
                    messages, calls, typed >>

NextParse == TypeNumber \/ TypeSeparator \/ Parse

ParseSpec == InitParse /\ [][NextParse]_vars

(* C5: the parsed input_rolls is exactly the set of distinct integers the  *)
(* user wrote, whatever separators (one or several, leading or trailing)   *)
(* stand between them; and the same integers written with any single       *)
(* separator between them parse to the same set.                           *)
C5_ExtractRolls ==
    pc = "parsed" =>
        /\ input_rolls = Range(typed)
        /\ \A sep \in Separators : ExtractRolls(Join(typed, sep)) = input_rolls

C5_Witness ==
    /\ pc = "parsed"
    /\ Len(typed) = 2
    /\ \E i \in DOMAIN typed : typed[i] >= 10
    /\ Cardinality(Range(roll_numbers_str) \cap Separators) = 2

-----------------------------------------------------------------------------
(* Column layout on its own: the table's name cells change between runs    *)
(* and each run renders the sheet of the selected view again.              *)

(* Names narrower than, as wide as each other, and wider than the header *)
Names ==
    { << "i" >>, << "W" >>, << "i", "i" >>, << "i", "W" >>, << "W", "i" >>,
      << "W", "W" >>, << "W", "W", "W" >>, << "W", "W", "W", "i" >> }

LayoutTables ==
    UNION {[1..k -> {[roll_no |-> 1, name |-> n, group_name |-> "G1"] : n \in Names}]
              : k \in 1..MaxLayoutRows}

(* The sheet the selected view renders from the roster (lines 170, 229-234) *)
Rendered(mode, d) ==
    IF mode = "Compact List"
    THEN create_signature_pdf(d)
    ELSE create_attendance_pdf(WithStatus(d, {}))

InitLayout ==
    /\ table \in LayoutTables
    /\ typed = << >>
    /\ pc = "start"
    /\ app_mode = "Attendance Maker"
    /\ conn = "none" /\ queries = 0 /\ db_error = "none"
    /\ df = << >>
    /\ student_data = << >>
    /\ input_method = "Enter Absentees"
    /\ roll_numbers_str = << >>
    /\ button = FALSE
    /\ input_rolls = {} /\ total_rolls = {} /\ out_of_range_rolls = {}
    /\ present_rolls = {} /\ absent_rolls = {}
    /\ attendance_df = << >>
    /\ pdf_bytes = NoDoc
    /\ download = NoDownload
    /\ messages = {} /\ calls = {}

(* The first run: a view is selected, the roster is read and rendered *)
FirstRun ==
    /\ pc = "start"
    /\ \E m \in AppModes : app_mode' = m
    /\ student_data' = table
    /\ pdf_bytes' = Rendered(app_mode', student_data')
    /\ pc' = "layout"
    /\ UNCHANGED << table, conn, queries, db_error, df, input_method,
                    roll_numbers_str, button, input_rolls, total_rolls,
                    out_of_range_rolls, present_rolls, absent_rolls,
                    attendance_df, download, messages, calls, typed >>

(* A name cell of the table is replaced and the script runs again *)
EditName ==
    /\ pc = "layout"
    /\ \E i \in DOMAIN table, n \in Names :
         /\ n # table[i].name
         /\ table' = [table EXCEPT ![i].name = n]
         /\ calls' = IF get_string_width("", n) > get_string_width("", table[i].name)
                     THEN {"edit_wider"} ELSE {"edit_not_wider"}
    /\ student_data' = table'
    /\ pdf_bytes' = Rendered(app_mode, student_data')
    /\ UNCHANGED << pc, app_mode, conn, queries, db_error, df, input_method,
                    roll_numbers_str, button, input_rolls, total_rolls,
                    out_of_range_rolls, present_rolls, absent_rolls,
                    attendance_df, download, messages, typed >>

(* The other view is selected and the script runs again *)
SwitchView ==
    /\ pc = "layout"
    /\ app_mode' = IF app_mode = "Compact List" THEN "Attendance Maker" ELSE "Compact List"
    /\ pdf_bytes' = Rendered(app_mode', student_data)
    /\ calls' = {}
    /\ UNCHANGED << table, pc, conn, queries, db_error, df, student_data,
                    input_method, roll_numbers_str, button, input_rolls,
                    total_rolls, out_of_range_rolls, present_rolls,
                    absent_rolls, attendance_df, download, messages, typed >>

NextLayout == FirstRun \/ EditName \/ SwitchView

LayoutSpec == InitLayout /\ [][NextLayout]_vars

HeaderWidth == 127 * (722 + 556 + 889 + 556)

(* d2 is d with some name cells replaced by texts at least as wide *)
Widened(d, d2) ==
    /\ DOMAIN d2 = DOMAIN d
    /\ \A i \in DOMAIN d :
          get_string_width("", d2[i].name) >= get_string_width("", d[i].name)

(* w is max(width(header), max over rows of width(name)) plus the padding *)
IsContentMax(w, d) ==
    /\ w >= HeaderWidth + Mm(6)
    /\ \A i \in DOMAIN d : w >= get_string_width("", d[i].name) + Mm(6)
    /\ \/ w = HeaderWidth + Mm(6)
       \/ \E i \in DOMAIN d : w = get_string_width("", d[i].name) + Mm(6)

====
